---- MODULE Spec2Model ----
(***************************************************************************)
(* Model of the demo-bank account ledger (package banking, type Bank):     *)
(* the in-memory balance, the idempotency cache "requests" with its mutex, *)
(* the persisted record bank-<name>.dat, and the goroutines of the HTTP    *)
(* server that run Deposit and Withdraw concurrently.                      *)
(***************************************************************************)
EXTENDS Integers, Sequences, FiniteSets, TLC

(* ------------------------------ bounds --------------------------------- *)
MaxAmount == 2        \* largest amount a caller passes
NumKeys == 1          \* number of distinct non-empty idempotency keys
NumRand == 2          \* number of distinct outcomes of the random source
MaxInitBalance == 1   \* largest balance found in a valid record at first start
MaxCalls == 2         \* number of Deposit/Withdraw calls in one run
MaxRestarts == 1      \* number of process restarts in one run

Procs == {1, 2}       \* request goroutines of the HTTP server
KeyNames == <<"k1", "k2", "k3", "k4">>
Keys == {""} \cup {KeyNames[i] : i \in 1..NumKeys}
\* amounts a caller passes: the invalid -1 and 0, and the valid 1..MaxAmount
Amounts == (-1)..MaxAmount

(* ------------------------- pure functions ------------------------------ *)
\* generateTransactionID: the digits rand.Intn may index
allowedChars == <<"0", "1", "2", "3", "4", "5", "6", "7", "8", "9">>

\* length of the random part of a transaction ID (second argument at the call sites)
TxIDLength == 10

\* the digit sequences of the given length the random source produces here:
\* outcome d of the source yields the digit allowedChars[d+1] at every index
randChars(length) ==
    {[i \in 1..length |-> allowedChars[d + 1]] : d \in 0..(NumRand - 1)}

\* generateTransactionID with a buffer one byte too short
generateTransactionIDShort(prefix, length) ==
    {<<prefix>> \o s : s \in randChars(length - 1)}

\* generateTransactionID(prefix, length): the set of IDs one call may return
generateTransactionID(prefix, length) ==
    {<<prefix>> \o s : s \in randChars(length)}

IsDigit(c) == \E d \in 1..10 : allowedChars[d] = c
DigitVal(c) == (CHOOSE d \in 1..10 : allowedChars[d] = c) - 1

RECURSIVE NatToStr(_)
NatToStr(n) ==
    IF n < 10 THEN <<allowedChars[n + 1]>>
    ELSE NatToStr(n \div 10) \o <<allowedChars[(n % 10) + 1]>>

\* json.MarshalIndent(bank.balance, "", "  "): the decimal text of an int
Marshal(n) == IF n < 0 THEN <<"-">> \o NatToStr(-n) ELSE NatToStr(n)

RECURSIVE StrToNat(_)
StrToNat(s) ==
    IF Len(s) = 0 THEN 0
    ELSE StrToNat(SubSeq(s, 1, Len(s) - 1)) * 10 + DigitVal(s[Len(s)])

\* a JSON number without sign, fraction or exponent: "0" or a digit string
\* that does not start with "0"
ValidNat(s) ==
    /\ Len(s) > 0
    /\ \A i \in 1..Len(s) : IsDigit(s[i])
    /\ (Len(s) > 1 => s[1] # "0")

\* json.Unmarshal(db, &balance) for an int target: [ok, value]
Unmarshal(s) ==
    IF ValidNat(s) THEN [ok |-> TRUE, value |-> StrToNat(s)]
    ELSE IF Len(s) > 1 /\ s[1] = "-" /\ ValidNat(Tail(s))
         THEN [ok |-> TRUE, value |-> 0 - StrToNat(Tail(s))]
         ELSE [ok |-> FALSE, value |-> 0]

\* load that never assigns the parsed value to the balance it returns
loadKeepsZero(exists, data, readOk) ==
    IF ~exists THEN [balance |-> 0, err |-> FALSE]
    ELSE IF ~readOk THEN [balance |-> -1, err |-> TRUE]
    ELSE IF ~Unmarshal(data).ok THEN [balance |-> -1, err |-> TRUE]
    ELSE [balance |-> 0, err |-> FALSE]

\* Bank.load(): (balance, error) from the record; readOk is whether
\* os.ReadFile succeeds
load(exists, data, readOk) ==
    IF ~exists THEN [balance |-> 0, err |-> FALSE]
    ELSE IF ~readOk THEN [balance |-> -1, err |-> TRUE]
    ELSE IF ~Unmarshal(data).ok THEN [balance |-> -1, err |-> TRUE]
    ELSE [balance |-> Unmarshal(data).value, err |-> FALSE]

\* NewBank(name): the balance the new Bank starts with; the load error is
\* logged and the returned balance is assigned whatever it is
NewBank(exists, data, readOk) == load(exists, data, readOk).balance

\* error values returned by Deposit and Withdraw
NoErr == [kind |-> "nil", amount |-> 0, balance |-> 0]
InvalidAmount(a) == [kind |-> "InvalidAmount", amount |-> a, balance |-> 0]
InsufficientFunds(a, b) == [kind |-> "InsufficientFunds", amount |-> a, balance |-> b]

NoTx == <<>>

\* the amount check letting zero through
invalidAmountNegative(amt) == amt < 0

\* line 262 / 299: the amount check of Deposit and Withdraw
invalidAmount(amt) == amt < 1

\* the funds check off by one
insufficientOffByOne(amt, bal) == amt > bal + 1

\* line 303: the funds check of Withdraw
insufficient(amt, bal) == amt > bal

\* a lookup that also finds what was recorded under the empty key
isDuplicateEmptyToo(key, reqs) == key \in DOMAIN reqs

\* the duplicate check left out
isDuplicateNever(key, reqs) == FALSE

\* lines 268-270 / 310-312: a non-empty key that the cache already holds
isDuplicate(key, reqs) == key # "" /\ key \in DOMAIN reqs

\* line 277: the new balance of a deposit
depositBalance(bal, amt) == bal + amt

\* line 319: the new balance of a withdrawal
withdrawBalance(bal, amt) == bal - amt

\* the cache write left out
putRequestDropped(reqs, key, txID) == reqs

\* lines 280 / 322: bank.requests[idempotencyKey] = txID
putRequest(reqs, key, txID) ==
    [k \in (DOMAIN reqs) \cup {key} |-> IF k = key THEN txID ELSE reqs[k]]

\* line 408: file.Write(data) on a descriptor positioned at offset 0
writeAt0(old, data) == data \o SubSeq(old, Len(data) + 1, Len(old))

(* ------------------- texts of the service and the client --------------- *)
\* a Go string is the sequence of its characters
\* lines 46, 78
MsgMissingAmountParam ==
    <<"E", "R", "R", "O", "R", ":", " ", "M", "I", "S", "S", "I", "N", "G",
      "_", "A", "M", "O", "U", "N", "T", "_", "P", "A", "R", "A", "M">>

\* lines 52, 84
MsgInvalidAmount ==
    <<"E", "R", "R", "O", "R", ":", " ", "I", "N", "V", "A", "L", "I", "D",
      "_", "A", "M", "O", "U", "N", "T">>

\* line 66, before %v
MsgDepositFail ==
    <<"E", "R", "R", "O", "R", ":", " ", "D", "E", "P", "O", "S", "I", "T",
      "_", "F", "A", "I", "L", ":", " ">>

\* line 96, before %v
MsgWithdrawFail ==
    <<"E", "R", "R", "O", "R", ":", " ", "W", "I", "T", "H", "D", "R", "A",
      "W", "_", "F", "A", "I", "L", ":", " ">>

\* line 103, before %s
MsgInsufficientFunds ==
    <<"E", "R", "R", "O", "R", ":", " ", "I", "N", "S", "U", "F", "F", "I",
      "C", "I", "E", "N", "T", "_", "F", "U", "N", "D", "S", ":", " ">>

\* line 72, before %s
MsgDepositComplete ==
    <<"S", "U", "C", "C", "E", "S", "S", ":", " ", "D", "E", "P", "O", "S",
      "I", "T", "_", "C", "O", "M", "P", "L", "E", "T", "E", ":", " ", "t",
      "r", "a", "n", "s", "a", "c", "t", "i", "o", "n", "-", "i", "d", "=">>

\* line 111, before %s
MsgWithdrawComplete ==
    <<"S", "U", "C", "C", "E", "S", "S", ":", " ", "W", "I", "T", "H", "D",
      "R", "A", "W", "_", "C", "O", "M", "P", "L", "E", "T", "E", ":", " ",
      "t", "r", "a", "n", "s", "a", "c", "t", "i", "o", "n", "-", "i", "d",
      "=">>

\* line 99, the text strings.Contains looks for
LedgerInsufficientMarker ==
    <<"i", "n", "s", "u", "f", "f", "i", "c", "i", "e", "n", "t", " ", "f",
      "u", "n", "d", "s", ":">>

\* line 275, the text strings.Contains looks for
ClientInsufficientMarker ==
    <<"I", "N", "S", "U", "F", "F", "I", "C", "I", "E", "N", "T", "_", "F",
      "U", "N", "D", "S">>

\* line 101, the literal part of the pattern :\s(.*)
ReColon ==
    <<":">>

\* line 276, the literal part of the pattern INSUFFICIENT_FUNDS:\s(.*)
ReInsufficientFunds ==
    <<"I", "N", "S", "U", "F", "F", "I", "C", "I", "E", "N", "T", "_", "F",
      "U", "N", "D", "S", ":">>

\* line 282, before %d
MsgHTTPError ==
    <<"H", "T", "T", "P", " ", "E", "r", "r", "o", "r", " ">>

\* lines 217, 240, before %s
MsgParseFail ==
    <<"f", "a", "i", "l", "e", "d", " ", "t", "o", " ", "p", "a", "r", "s",
      "e", " ", "I", "D", " ", "f", "r", "o", "m", " ", "s", "e", "r", "v",
      "i", "c", "e", " ", "r", "e", "s", "p", "o", "n", "s", "e", ":", " ">>

\* ui.go line 263, before %d
TxtInvalidAmountDeposit ==
    <<"I", "n", "v", "a", "l", "i", "d", " ", "a", "m", "o", "u", "n", "t",
      " ", "-", " ">>

\* ui.go line 300, before %d
TxtInvalidAmountWithdraw ==
    <<"I", "n", "v", "a", "l", "i", "d", " ", "a", "m", "o", "u", "n", "t",
      ":", " ">>

\* ui.go line 303, up to the first %d
TxtInsufficientFunds ==
    <<"i", "n", "s", "u", "f", "f", "i", "c", "i", "e", "n", "t", " ", "f",
      "u", "n", "d", "s", ":", " ", "w", "i", "t", "h", "d", "r", "a", "w",
      "a", "l", " ", "a", "m", "o", "u", "n", "t", " ", "$">>

\* ui.go line 303, between the two %d
TxtExceedsBalance ==
    <<" ", "e", "x", "c", "e", "e", "d", "s", " ", "b", "a", "l", "a", "n",
      "c", "e", " ", "$">>

(* --------------------- string functions of the library ------------------ *)
\* sub occurs in s starting at index i
OccursAt(s, sub, i) ==
    /\ i >= 1
    /\ i + Len(sub) - 1 <= Len(s)
    /\ \A j \in 1..Len(sub) : s[i + j - 1] = sub[j]

\* strings.Contains
Contains(s, sub) == \E i \in 1..(Len(s) + 1) : OccursAt(s, sub, i)

\* the character class \s of regexp: [\t\n\f\r ]
IsSpace(c) == c \in {" ", "\t", "\n", "\f", "\r"}

\* what (.*) takes of s: '.' does not match a newline
RECURSIVE UpToNewline(_)
UpToNewline(s) ==
    IF s = <<>> \/ Head(s) = "\n" THEN <<>>
    ELSE <<Head(s)>> \o UpToNewline(Tail(s))

\* the start indexes of the matches of the pattern  literal \s (.*)  in s
MatchStarts(literal, s) ==
    {i \in 1..Len(s) : /\ OccursAt(s, literal, i)
                       /\ i + Len(literal) <= Len(s)
                       /\ IsSpace(s[i + Len(literal)])}

\* a (.*) that also runs over newlines
FindStringSubmatchDotAll(literal, s) ==
    IF MatchStarts(literal, s) = {}
    THEN [found |-> FALSE, group |-> <<>>]
    ELSE LET i == CHOOSE m \in MatchStarts(literal, s) :
                      \A n \in MatchStarts(literal, s) : m <= n
         IN [found |-> TRUE,
             group |-> SubSeq(s, i + Len(literal) + 1, Len(s))]

\* regexp.MustCompile(literal\s(.*)).FindStringSubmatch(s): the leftmost
\* match; found is FALSE where the result is nil, group is matches[1]
FindStringSubmatch(literal, s) ==
    IF MatchStarts(literal, s) = {}
    THEN [found |-> FALSE, group |-> <<>>]
    ELSE LET i == CHOOSE m \in MatchStarts(literal, s) :
                      \A n \in MatchStarts(literal, s) : m <= n
         IN [found |-> TRUE,
             group |-> UpToNewline(SubSeq(s, i + Len(literal) + 1, Len(s)))]

\* strings.Cut(s, "="): the text after the first '='
Cut(s, sep) ==
    IF \E i \in 1..Len(s) : s[i] = sep
    THEN LET i == CHOOSE m \in 1..Len(s) :
                      /\ s[m] = sep
                      /\ \A n \in 1..(m - 1) : s[n] # sep
         IN [before |-> SubSeq(s, 1, i - 1), after |-> SubSeq(s, i + 1, Len(s)),
             found |-> TRUE]
    ELSE [before |-> s, after |-> <<>>, found |-> FALSE]

\* the verb %d of fmt
Itoa(n) == IF n < 0 THEN <<"-">> \o NatToStr(-n) ELSE NatToStr(n)

\* strconv.Atoi: an optional sign followed by one or more decimal digits
\* (values here stay far inside the range of int)
Atoi(s) ==
    LET digits == IF s # <<>> /\ Head(s) \in {"+", "-"} THEN Tail(s) ELSE s
    IN IF digits # <<>> /\ \A i \in 1..Len(digits) : IsDigit(digits[i])
       THEN [ok |-> TRUE,
             value |-> IF Head(s) = "-" THEN -StrToNat(digits) ELSE StrToNat(digits)]
       ELSE [ok |-> FALSE, value |-> 0]

(* ------------------------- the Bank's error texts ----------------------- *)
\* err.Error() of the errors Deposit ("D") and Withdraw ("W") return
ErrorText(op, err) ==
    IF err.kind = "InsufficientFunds"
    THEN TxtInsufficientFunds \o Itoa(err.amount)
             \o TxtExceedsBalance \o Itoa(err.balance)
    ELSE IF op = "D"
    THEN TxtInvalidAmountDeposit \o Itoa(err.amount)
    ELSE TxtInvalidAmountWithdraw \o Itoa(err.amount)

(* ------------------------------ the service ----------------------------- *)
\* a request: the query parameters amount and idempotency-key, each present
\* or not; direct is TRUE for a call made on the Bank without the service
NoReq == [direct |-> TRUE, hasAmount |-> FALSE, amount |-> <<>>,
          hasKey |-> FALSE, key |-> ""]
NoResp == [status |-> 0, body |-> <<>>]
NoCli == [returned |-> FALSE, tx |-> NoTx, kind |-> "nil", message |-> <<>>]

\* values of the amount parameter other than what %d prints
OddAmounts == {<<>>, <<"x">>, <<"+", "1">>, <<"1", "x">>}
AmountParams == {Itoa(a) : a \in Amounts} \cup OddAmounts

Requests ==
    {[direct |-> FALSE, hasAmount |-> ha, amount |-> IF ha THEN a ELSE <<>>,
      hasKey |-> hk, key |-> IF hk THEN k ELSE ""] :
        ha \in BOOLEAN, a \in AmountParams, hk \in BOOLEAN, k \in Keys}

\* the request BankClient.Deposit and BankClient.Withdraw send (lines 206-207,
\* 229-230); url.QueryEscape and the server's parsing give the key back as it was
ClientRequest(amount, idempotencyKey) ==
    [direct |-> FALSE, hasAmount |-> TRUE, amount |-> Itoa(amount),
     hasKey |-> TRUE, key |-> idempotencyKey]

\* http.Error: the status and the message as a line
httpError(message, code) == [status |-> code, body |-> message \o <<"\n">>]

\* lines 44-48 and 76-80
missingAmount(r) == ~r.hasAmount

\* a handler that leaves the check amount < 1 to the Bank
badAmountParseOnly(r) == ~Atoi(r.amount).ok

\* lines 50-54 and 82-86
badAmount(r) == ~Atoi(r.amount).ok \/ Atoi(r.amount).value < 1

\* lines 56-60 and 88-92
idempotencyKeyOf(r) == IF r.hasKey THEN r.key ELSE ""

\* lines 64-72: the response to what bank.Deposit returned
depositResponse(txID, err) ==
    IF err # NoErr
    THEN httpError(MsgDepositFail \o ErrorText("D", err), 400)
    ELSE [status |-> 200, body |-> MsgDepositComplete \o txID]

\* lines 94-111: the response to what bank.Withdraw returned; where the
\* pattern does not match, matches[1] panics and the server closes the
\* connection without a response
withdrawResponse(txID, err) ==
    IF err # NoErr
    THEN IF Contains(ErrorText("W", err), LedgerInsufficientMarker)
         THEN IF FindStringSubmatch(ReColon, ErrorText("W", err)).found
              THEN httpError(MsgInsufficientFunds
                        \o FindStringSubmatch(ReColon, ErrorText("W", err)).group, 400)
              ELSE [status |-> -1, body |-> <<>>]
         ELSE httpError(MsgWithdrawFail \o ErrorText("W", err), 400)
    ELSE [status |-> 200, body |-> MsgWithdrawComplete \o txID]

(* ------------------------------ the client ------------------------------ *)
\* a callService that takes every error status for insufficient funds
callServiceAllTyped(resp) ==
    IF resp.status >= 400
    THEN [content |-> <<>>, kind |-> "InsufficientFundsError", message |-> resp.body]
    ELSE [content |-> resp.body, kind |-> "nil", message |-> <<>>]

\* callService, lines 257-288, from the response on; a status below 0 stands
\* for http.Get returning an error; kind "panic" is the index out of range of
\* matches[1] when the pattern does not match
callService(resp) ==
    IF resp.status < 0
    THEN [content |-> <<>>, kind |-> "error", message |-> <<>>]
    ELSE IF resp.status >= 400
    THEN IF Contains(resp.body, ClientInsufficientMarker)
         THEN IF FindStringSubmatch(ReInsufficientFunds, resp.body).found
              THEN [content |-> <<>>, kind |-> "InsufficientFundsError",
                    message |-> FindStringSubmatch(ReInsufficientFunds, resp.body).group]
              ELSE [content |-> <<>>, kind |-> "panic", message |-> <<>>]
         ELSE [content |-> <<>>, kind |-> "error",
               message |-> MsgHTTPError \o Itoa(resp.status) \o <<":", " ">> \o resp.body]
    ELSE [content |-> resp.body, kind |-> "nil", message |-> <<>>]

\* BankClient.Deposit and BankClient.Withdraw after the URL is built
\* (lines 209-220 and 232-243, the same code)
clientResult(resp) ==
    LET r == callService(resp)
    IN IF r.kind # "nil"
       THEN [returned |-> TRUE, tx |-> NoTx, kind |-> r.kind, message |-> r.message]
       ELSE IF ~Cut(r.content, "=").found
       THEN [returned |-> TRUE, tx |-> NoTx, kind |-> "error",
             message |-> MsgParseFail \o r.content]
       ELSE [returned |-> TRUE, tx |-> Cut(r.content, "=").after, kind |-> "nil",
             message |-> <<>>]

(* ------------------------------ state ---------------------------------- *)
VARIABLES
    balance,        \* Bank.balance
    requests,       \* Bank.requests: idempotency key -> transaction ID
    requestsLock,   \* Bank.requestsLock: 0 when free, else the holder
    fileExists,     \* whether bank-<name>.dat exists
    fileData,       \* its bytes
    alive,          \* FALSE after log.Fatalf ended the process
    proc,           \* per goroutine: position and locals of the running call
    gh,             \* per goroutine: observations about the running call
    epoch,          \* number of restarts so far
    calls,          \* number of calls started so far
    epochCalls,     \* number of calls started in this process lifetime
    expected,       \* balance at start of this lifetime plus all applied changes
    ioFailed,       \* a file operation has failed (at most one fails in a run)
    durable,        \* serial numbers of the calls whose save wrote the record
    owner,          \* key -> serial number of the call that recorded the key
    firstRet,       \* key -> the first call that returned success with the key
    oldBalance,     \* in-memory balance of the previous lifetime at its end
    oldRequests,    \* the cache of the previous lifetime at its end
    loadFailed      \* load returned an error when this lifetime started

progVars == <<balance, requests, requestsLock, fileExists, fileData, alive, proc>>
ghostVars == <<gh, epoch, calls, epochCalls, expected, ioFailed, durable, owner, firstRet, oldBalance, oldRequests, loadFailed>>
vars == <<balance, requests, requestsLock, fileExists, fileData, alive, proc,
          gh, epoch, calls, epochCalls, expected, ioFailed, durable, owner, firstRet, oldBalance, oldRequests, loadFailed>>

EmptyMap == [k \in {} |-> 0]

IdleProc == [pc |-> "idle", op |-> "", amount |-> 0, key |-> "", txID |-> NoTx,
             tmp |-> 0, data |-> <<>>, ret |-> [tx |-> NoTx, err |-> NoErr],
             req |-> NoReq, resp |-> NoResp, cli |-> NoCli]
IdleGh == [sn |-> 0, bal0 |-> 0, applied |-> FALSE, checked |-> 0, dup |-> FALSE,
           src |-> 0, ioFail |-> FALSE, had |-> FALSE, retry |-> FALSE]

\* records found on disk at the first start: none, a valid one, a corrupt one
CorruptData == {<<>>, <<"x">>}
InitFiles ==
    {[exists |-> FALSE, data |-> <<>>]}
    \cup {[exists |-> TRUE, data |-> Marshal(n)] : n \in 0..MaxInitBalance}
    \cup {[exists |-> TRUE, data |-> d] : d \in CorruptData}

GetBalance == balance

Init ==
    \E f \in InitFiles :
        /\ fileExists = f.exists
        /\ fileData = f.data
        /\ balance = NewBank(f.exists, f.data, TRUE)
        /\ requests = EmptyMap
        /\ requestsLock = 0
        /\ alive = TRUE
        /\ proc = [p \in Procs |-> IdleProc]
        /\ gh = [p \in Procs |-> IdleGh]
        /\ epoch = 0
        /\ calls = 0
        /\ epochCalls = 0
        /\ expected = NewBank(f.exists, f.data, TRUE)
        /\ ioFailed = FALSE
        /\ durable = {}
        /\ owner = EmptyMap
        /\ firstRet = EmptyMap
        /\ oldBalance = 0
        /\ oldRequests = EmptyMap
        /\ loadFailed = load(f.exists, f.data, TRUE).err

(* ----------------------------- helpers --------------------------------- *)
CanCall(p) ==
    /\ alive
    /\ proc[p].pc \in {"idle", "done"}
    /\ calls < MaxCalls

Running(p) == alive /\ proc[p].pc \notin {"idle", "done"}

\* the call of p returns (tx, err)
Return(p, tx, err) ==
    [proc EXCEPT ![p].pc = "done", ![p].txID = NoTx, ![p].tmp = 0, ![p].data = <<>>,
                 ![p].ret = [tx |-> tx, err |-> err]]

\* firstRet after the call of p returned tx with success
Remember(p, tx) ==
    IF proc[p].key # "" /\ proc[p].key \notin DOMAIN firstRet
    THEN [k \in (DOMAIN firstRet) \cup {proc[p].key} |->
            IF k = proc[p].key
            THEN [op |-> proc[p].op, amount |-> proc[p].amount, tx |-> tx,
                  change |-> balance - gh[p].bal0]
            ELSE firstRet[k]]
    ELSE firstRet

StartGh(p, k) ==
    [gh EXCEPT ![p] = [sn |-> calls + 1, bal0 |-> balance, applied |-> FALSE,
                       checked |-> 0, dup |-> (k \in DOMAIN firstRet),
                       src |-> 0, ioFail |-> FALSE,
                       had |-> (k \in DOMAIN requests), retry |-> FALSE]]

(* ----------------------------- Deposit --------------------------------- *)
\* lines 261-264: where a call of Deposit(a, k) made for request r stands
\* after the amount check
depositEntry(a, k, r) ==
    IF invalidAmount(a)
    THEN [IdleProc EXCEPT !.pc = "done", !.op = "D", !.amount = a, !.key = k,
                          !.ret = [tx |-> NoTx, err |-> InvalidAmount(a)], !.req = r]
    ELSE [IdleProc EXCEPT !.pc = "lookup", !.op = "D", !.amount = a, !.key = k,
                          !.req = r]

\* a direct call of Deposit
Deposit(p) ==
    /\ CanCall(p)
    /\ \E a \in Amounts, k \in Keys :
        /\ proc' = [proc EXCEPT ![p] = depositEntry(a, k, NoReq)]
        /\ gh' = StartGh(p, k)
    /\ calls' = calls + 1
    /\ epochCalls' = epochCalls + 1
    /\ UNCHANGED <<balance, requests, requestsLock, fileExists, fileData, alive,
                   epoch, expected, ioFailed, durable, owner, firstRet, oldBalance, oldRequests, loadFailed>>

(* ----------------------------- Withdraw -------------------------------- *)
\* lines 298-301: where a call of Withdraw(a, k) made for request r stands
\* after the amount check
withdrawEntry(a, k, r) ==
    IF invalidAmount(a)
    THEN [IdleProc EXCEPT !.pc = "done", !.op = "W", !.amount = a, !.key = k,
                          !.ret = [tx |-> NoTx, err |-> InvalidAmount(a)], !.req = r]
    ELSE [IdleProc EXCEPT !.pc = "funds", !.op = "W", !.amount = a, !.key = k,
                          !.req = r]

\* a direct call of Withdraw
Withdraw(p) ==
    /\ CanCall(p)
    /\ \E a \in Amounts, k \in Keys :
        /\ proc' = [proc EXCEPT ![p] = withdrawEntry(a, k, NoReq)]
        /\ gh' = StartGh(p, k)
    /\ calls' = calls + 1
    /\ epochCalls' = epochCalls + 1
    /\ UNCHANGED <<balance, requests, requestsLock, fileExists, fileData, alive,
                   epoch, expected, ioFailed, durable, owner, firstRet, oldBalance, oldRequests, loadFailed>>

\* the funds check made only after the key was looked up and found absent
CheckFundsAfterLookup(p) ==
    /\ Running(p)
    /\ proc[p].pc = "funds"
    /\ proc' = IF isDuplicate(proc[p].key, requests)
               THEN Return(p, requests[proc[p].key], NoErr)
               ELSE IF insufficient(proc[p].amount, balance)
                    THEN Return(p, NoTx, InsufficientFunds(proc[p].amount, balance))
                    ELSE [proc EXCEPT ![p].pc = "lookup"]
    /\ gh' = [gh EXCEPT ![p].checked = balance]
    /\ UNCHANGED <<balance, requests, requestsLock, fileExists, fileData, alive,
                   epoch, calls, epochCalls, expected, ioFailed, durable, owner,
                   firstRet, oldBalance, oldRequests, loadFailed>>

\* a funds check that records the key of the call it turns down
CheckFundsConsumesKey(p) ==
    /\ Running(p)
    /\ proc[p].pc = "funds"
    /\ proc' = IF insufficient(proc[p].amount, balance)
               THEN Return(p, NoTx, InsufficientFunds(proc[p].amount, balance))
               ELSE [proc EXCEPT ![p].pc = "lookup"]
    /\ requests' = IF insufficient(proc[p].amount, balance)
                   THEN putRequest(requests, proc[p].key, <<"W">>)
                   ELSE requests
    /\ owner' = IF insufficient(proc[p].amount, balance)
                THEN putRequest(owner, proc[p].key, gh[p].sn)
                ELSE owner
    /\ gh' = [gh EXCEPT ![p].checked = balance]
    /\ UNCHANGED <<balance, requestsLock, fileExists, fileData, alive,
                   epoch, calls, epochCalls, expected, ioFailed, durable,
                   firstRet, oldBalance, oldRequests, loadFailed>>

\* lines 303-306: the funds check, reading bank.balance
CheckFunds(p) ==
    /\ Running(p)
    /\ proc[p].pc = "funds"
    /\ proc' = IF insufficient(proc[p].amount, balance)
               THEN Return(p, NoTx, InsufficientFunds(proc[p].amount, balance))
               ELSE [proc EXCEPT ![p].pc = "lookup"]
    /\ gh' = [gh EXCEPT ![p].checked = balance]
    /\ UNCHANGED <<balance, requests, requestsLock, fileExists, fileData, alive,
                   epoch, calls, epochCalls, expected, ioFailed, durable, owner,
                   firstRet, oldBalance, oldRequests, loadFailed>>

(* ------------------ a call that repeats a failed call's key ------------ *)
\* the previous call of p returned an error and had a non-empty key
CanRetry(p) ==
    /\ CanCall(p)
    /\ proc[p].pc = "done"
    /\ proc[p].ret.err # NoErr
    /\ proc[p].key # ""

\* Deposit called with the key of the caller's failed call (lines 261-264)
RetryDeposit(p) ==
    /\ CanRetry(p)
    /\ \E a \in Amounts :
        /\ proc' = [proc EXCEPT ![p] = depositEntry(a, proc[p].key, NoReq)]
        /\ gh' = [StartGh(p, proc[p].key) EXCEPT ![p].retry = TRUE]
    /\ calls' = calls + 1
    /\ epochCalls' = epochCalls + 1
    /\ UNCHANGED <<balance, requests, requestsLock, fileExists, fileData, alive,
                   epoch, expected, ioFailed, durable, owner, firstRet, oldBalance,
                   oldRequests, loadFailed>>

\* Withdraw called with the key of the caller's failed call (lines 298-301)
RetryWithdraw(p) ==
    /\ CanRetry(p)
    /\ \E a \in Amounts :
        /\ proc' = [proc EXCEPT ![p] = withdrawEntry(a, proc[p].key, NoReq)]
        /\ gh' = [StartGh(p, proc[p].key) EXCEPT ![p].retry = TRUE]
    /\ calls' = calls + 1
    /\ epochCalls' = epochCalls + 1
    /\ UNCHANGED <<balance, requests, requestsLock, fileExists, fileData, alive,
                   epoch, expected, ioFailed, durable, owner, firstRet, oldBalance,
                   oldRequests, loadFailed>>

(* ------------------- steps shared by both operations ------------------- *)
\* lines 268-275 / 310-317: the cache lookup, made without holding the mutex
Lookup(p) ==
    /\ Running(p)
    /\ proc[p].pc = "lookup"
    /\ IF isDuplicate(proc[p].key, requests)
       THEN /\ proc' = Return(p, requests[proc[p].key], NoErr)
            /\ gh' = [gh EXCEPT ![p].src = owner[proc[p].key]]
            /\ firstRet' = Remember(p, requests[proc[p].key])
       ELSE /\ proc' = [proc EXCEPT ![p].pc = "read"]
            /\ gh' = gh
            /\ firstRet' = firstRet
    /\ UNCHANGED <<balance, requests, requestsLock, fileExists, fileData, alive,
                   epoch, calls, epochCalls, expected, ioFailed, durable, owner,
                   oldBalance, oldRequests, loadFailed>>

\* the lookup of p (lines 269 / 311) would run while another call is between
\* Lock and Unlock (lines 280 / 322)
LookupDuringPut(p) ==
    /\ Running(p)
    /\ proc[p].pc = "lookup"
    /\ proc[p].key # ""
    /\ \E q \in Procs \ {p} : proc[q].pc = "put"

\* lines 269 / 311 racing with lines 280 / 322: besides reading the map as it
\* was before or after the write (Lookup), the runtime may stop the process
\* with "fatal error: concurrent map read and map write"
LookupRace(p) ==
    /\ LookupDuringPut(p)
    /\ alive' = FALSE
    /\ UNCHANGED <<balance, requests, requestsLock, fileExists, fileData, proc>>
    /\ UNCHANGED ghostVars

\* lines 277 / 319, right-hand side: read bank.balance
ReadBalance(p) ==
    /\ Running(p)
    /\ proc[p].pc = "read"
    /\ proc' = [proc EXCEPT ![p].pc = "write", ![p].tmp = balance]
    /\ UNCHANGED <<balance, requests, requestsLock, fileExists, fileData, alive>>
    /\ UNCHANGED ghostVars

\* lines 277-278 / 319-320: store the new balance, then generate the ID
WriteBalance(p) ==
    /\ Running(p)
    /\ proc[p].pc = "write"
    /\ balance' = IF proc[p].op = "D"
                  THEN depositBalance(proc[p].tmp, proc[p].amount)
                  ELSE withdrawBalance(proc[p].tmp, proc[p].amount)
    /\ \E id \in generateTransactionID(proc[p].op, TxIDLength) :
          proc' = [proc EXCEPT ![p].pc = "lock", ![p].txID = id]
    /\ gh' = [gh EXCEPT ![p].applied = TRUE, ![p].src = gh[p].sn]
    /\ expected' = IF proc[p].op = "D" THEN expected + proc[p].amount
                   ELSE expected - proc[p].amount
    /\ UNCHANGED <<requests, requestsLock, fileExists, fileData, alive,
                   epoch, calls, epochCalls, ioFailed, durable, owner, firstRet,
                   oldBalance, oldRequests, loadFailed>>

\* lines 279 / 321: bank.requestsLock.Lock()
Lock(p) ==
    /\ Running(p)
    /\ proc[p].pc = "lock"
    /\ requestsLock = 0
    /\ requestsLock' = p
    /\ proc' = [proc EXCEPT ![p].pc = "put"]
    /\ UNCHANGED <<balance, requests, fileExists, fileData, alive>>
    /\ UNCHANGED ghostVars

\* lines 280-281 / 322-323: record the ID under the key, then Unlock()
Put(p) ==
    /\ Running(p)
    /\ proc[p].pc = "put"
    /\ requestsLock = p
    /\ requests' = putRequest(requests, proc[p].key, proc[p].txID)
    /\ owner' = putRequest(owner, proc[p].key, gh[p].sn)
    /\ requestsLock' = 0
    /\ proc' = [proc EXCEPT ![p].pc = "save"]
    /\ UNCHANGED <<balance, fileExists, fileData, alive, gh, epoch, calls,
                   epochCalls, expected, ioFailed, durable, firstRet, oldBalance, oldRequests, loadFailed>>

(* ------------------------------- save ---------------------------------- *)
\* line 401: marshal the balance as it is now
saveMarshal(p) ==
    /\ Running(p)
    /\ proc[p].pc = "save"
    /\ proc' = [proc EXCEPT ![p].pc = "create", ![p].data = Marshal(balance)]
    /\ UNCHANGED <<balance, requests, requestsLock, fileExists, fileData, alive>>
    /\ UNCHANGED ghostVars

\* lines 402-406: os.Create truncates the record
saveCreate(p) ==
    /\ Running(p)
    /\ proc[p].pc = "create"
    /\ fileExists' = TRUE
    /\ fileData' = <<>>
    /\ proc' = [proc EXCEPT ![p].pc = "fwrite"]
    /\ UNCHANGED <<balance, requests, requestsLock, alive>>
    /\ UNCHANGED ghostVars

\* lines 402-405: os.Create fails and log.Fatalf ends the process
saveCreateFails(p) ==
    /\ Running(p)
    /\ proc[p].pc = "create"
    /\ ~ioFailed
    /\ alive' = FALSE
    /\ ioFailed' = TRUE
    /\ gh' = [gh EXCEPT ![p].ioFail = TRUE]
    /\ UNCHANGED <<balance, requests, requestsLock, fileExists, fileData, proc,
                   epoch, calls, epochCalls, expected, durable, owner, firstRet,
                   oldBalance, oldRequests, loadFailed>>

\* lines 408-412 and 283-290 / 325-332: write and sync; save returns the nil
\* error of os.Create and the call returns the transaction ID
saveWrite(p) ==
    /\ Running(p)
    /\ proc[p].pc = "fwrite"
    /\ fileData' = writeAt0(fileData, proc[p].data)
    /\ durable' = durable \cup {gh[p].sn}
    /\ proc' = Return(p, proc[p].txID, NoErr)
    /\ firstRet' = Remember(p, proc[p].txID)
    /\ UNCHANGED <<balance, requests, requestsLock, fileExists, alive, gh, epoch,
                   calls, epochCalls, expected, ioFailed, owner, oldBalance, oldRequests, loadFailed>>

\* the same lines when file.Write fails: its result is not looked at, so
\* save still returns nil and the call still returns the transaction ID
saveWriteFails(p) ==
    /\ Running(p)
    /\ proc[p].pc = "fwrite"
    /\ ~ioFailed
    /\ ioFailed' = TRUE
    /\ gh' = [gh EXCEPT ![p].ioFail = TRUE]
    /\ proc' = Return(p, proc[p].txID, NoErr)
    /\ firstRet' = Remember(p, proc[p].txID)
    /\ UNCHANGED <<balance, requests, requestsLock, fileExists, fileData, alive,
                   epoch, calls, epochCalls, expected, durable, owner, oldBalance, oldRequests, loadFailed>>

(* ------------------------- requests to the service --------------------- *)
\* a caller sends its next request when the previous one has been answered
\* and the client has returned
CanRequest(p) ==
    /\ alive
    /\ calls < MaxCalls
    /\ \/ proc[p].pc = "idle"
       \/ proc[p].pc = "done" /\ proc[p].cli.returned

\* a request that a handler answers without calling the Bank
Rejected(op, r, message) ==
    [IdleProc EXCEPT !.pc = "done", !.op = op, !.req = r,
                     !.resp = httpError(message, 400)]

\* depositHandler, lines 43-64: the request is answered with an error, or
\* bank.Deposit is called
depositHandler(p) ==
    /\ CanRequest(p)
    /\ \E r \in Requests :
        IF missingAmount(r)
        THEN /\ proc' = [proc EXCEPT ![p] = Rejected("D", r, MsgMissingAmountParam)]
             /\ gh' = [gh EXCEPT ![p] = IdleGh]
             /\ UNCHANGED epochCalls
        ELSE IF badAmount(r)
        THEN /\ proc' = [proc EXCEPT ![p] = Rejected("D", r, MsgInvalidAmount)]
             /\ gh' = [gh EXCEPT ![p] = IdleGh]
             /\ UNCHANGED epochCalls
        ELSE /\ proc' = [proc EXCEPT ![p] =
                    depositEntry(Atoi(r.amount).value, idempotencyKeyOf(r), r)]
             /\ gh' = StartGh(p, idempotencyKeyOf(r))
             /\ epochCalls' = epochCalls + 1
    /\ calls' = calls + 1
    /\ UNCHANGED <<balance, requests, requestsLock, fileExists, fileData, alive,
                   epoch, expected, ioFailed, durable, owner, firstRet, oldBalance,
                   oldRequests, loadFailed>>

\* withdrawHandler, lines 75-94
withdrawHandler(p) ==
    /\ CanRequest(p)
    /\ \E r \in Requests :
        IF missingAmount(r)
        THEN /\ proc' = [proc EXCEPT ![p] = Rejected("W", r, MsgMissingAmountParam)]
             /\ gh' = [gh EXCEPT ![p] = IdleGh]
             /\ UNCHANGED epochCalls
        ELSE IF badAmount(r)
        THEN /\ proc' = [proc EXCEPT ![p] = Rejected("W", r, MsgInvalidAmount)]
             /\ gh' = [gh EXCEPT ![p] = IdleGh]
             /\ UNCHANGED epochCalls
        ELSE /\ proc' = [proc EXCEPT ![p] =
                    withdrawEntry(Atoi(r.amount).value, idempotencyKeyOf(r), r)]
             /\ gh' = StartGh(p, idempotencyKeyOf(r))
             /\ epochCalls' = epochCalls + 1
    /\ calls' = calls + 1
    /\ UNCHANGED <<balance, requests, requestsLock, fileExists, fileData, alive,
                   epoch, expected, ioFailed, durable, owner, firstRet, oldBalance,
                   oldRequests, loadFailed>>

\* the Bank has returned to the handler of p, which has not answered yet
Returned(p, op) ==
    /\ alive
    /\ proc[p].pc = "done"
    /\ proc[p].op = op
    /\ ~proc[p].req.direct
    /\ proc[p].resp = NoResp

\* depositHandler, lines 65-72
depositRespond(p) ==
    /\ Returned(p, "D")
    /\ proc' = [proc EXCEPT ![p].resp = depositResponse(proc[p].ret.tx, proc[p].ret.err)]
    /\ UNCHANGED <<balance, requests, requestsLock, fileExists, fileData, alive>>
    /\ UNCHANGED ghostVars

\* withdrawHandler, lines 95-111
withdrawRespond(p) ==
    /\ Returned(p, "W")
    /\ proc' = [proc EXCEPT ![p].resp = withdrawResponse(proc[p].ret.tx, proc[p].ret.err)]
    /\ UNCHANGED <<balance, requests, requestsLock, fileExists, fileData, alive>>
    /\ UNCHANGED ghostVars

\* the client returns what it makes of the response
clientReturn(p) ==
    /\ alive
    /\ proc[p].pc = "done"
    /\ proc[p].resp # NoResp
    /\ ~proc[p].cli.returned
    /\ proc' = [proc EXCEPT ![p].cli = clientResult(proc[p].resp)]
    /\ UNCHANGED <<balance, requests, requestsLock, fileExists, fileData, alive>>
    /\ UNCHANGED ghostVars

(* ------------------------------ restart -------------------------------- *)
Quiescent == \A p \in Procs : proc[p].pc \in {"idle", "done"}

\* a new process that finds the cache of the previous one
StartedWithOldCache(readOk) ==
    /\ balance' = NewBank(fileExists, fileData, readOk)
    /\ expected' = NewBank(fileExists, fileData, readOk)
    /\ requests' = requests
    /\ requestsLock' = 0
    /\ alive' = TRUE
    /\ proc' = [p \in Procs |-> IdleProc]
    /\ gh' = [p \in Procs |-> IdleGh]
    /\ epoch' = epoch + 1
    /\ epochCalls' = 0
    /\ durable' = {}
    /\ owner' = owner
    /\ firstRet' = EmptyMap
    /\ oldBalance' = balance
    /\ oldRequests' = requests
    /\ loadFailed' = load(fileExists, fileData, readOk).err
    /\ UNCHANGED <<fileExists, fileData, calls>>

\* what a new process sets up: NewBank, lines 230-245
Started(readOk) ==
    /\ balance' = NewBank(fileExists, fileData, readOk)
    /\ expected' = NewBank(fileExists, fileData, readOk)
    /\ requests' = EmptyMap
    /\ requestsLock' = 0
    /\ alive' = TRUE
    /\ proc' = [p \in Procs |-> IdleProc]
    /\ gh' = [p \in Procs |-> IdleGh]
    /\ epoch' = epoch + 1
    /\ epochCalls' = 0
    /\ durable' = {}
    /\ owner' = EmptyMap
    /\ firstRet' = EmptyMap
    /\ oldBalance' = balance
    /\ oldRequests' = requests
    /\ loadFailed' = load(fileExists, fileData, readOk).err
    /\ UNCHANGED <<fileExists, fileData, calls>>

\* the process ends (or has been ended by log.Fatalf) and a new one is
\* started for the same name
Restart ==
    /\ Quiescent \/ ~alive
    /\ epoch < MaxRestarts
    /\ Started(TRUE)
    /\ UNCHANGED ioFailed

\* the same, when os.ReadFile fails on the existing record (lines 375-379)
RestartReadFails ==
    /\ Quiescent \/ ~alive
    /\ epoch < MaxRestarts
    /\ fileExists
    /\ ~ioFailed
    /\ Started(FALSE)
    /\ ioFailed' = TRUE

(* --------------------------- specifications ---------------------------- *)
\* the steps of a call when every file operation succeeds
Step(p) ==
    \/ Deposit(p)
    \/ Withdraw(p)
    \/ CheckFunds(p)
    \/ Lookup(p)
    \/ ReadBalance(p)
    \/ WriteBalance(p)
    \/ Lock(p)
    \/ Put(p)
    \/ saveMarshal(p)
    \/ saveCreate(p)
    \/ saveWrite(p)

\* the steps at which a file operation fails
Fault(p) ==
    \/ saveCreateFails(p)
    \/ saveWriteFails(p)

\* the server runs each request in a goroutine of its own; no file
\* operation fails
Next == (\E p \in Procs : Step(p) \/ LookupRace(p)) \/ Restart
Spec == Init /\ [][Next]_vars

\* one caller that waits for each call to return before making the next;
\* no file operation fails
SeqNext == (\E p \in {1} : Step(p)) \/ Restart
SeqSpec == Init /\ [][SeqNext]_vars

\* one caller that, after a call that failed, may call again with the same
\* key; no file operation fails and the process is not restarted
RetryNext == \E p \in {1} : Step(p) \/ RetryDeposit(p) \/ RetryWithdraw(p)
RetrySpec == Init /\ [][RetryNext]_vars

\* one caller, and at most one file operation of the run fails
FaultNext == (\E p \in {1} : Step(p) \/ Fault(p)) \/ Restart \/ RestartReadFails
FaultSpec == Init /\ [][FaultNext]_vars

\* the steps of a request sent to the service
Serve(p) ==
    \/ depositHandler(p)
    \/ withdrawHandler(p)
    \/ CheckFunds(p)
    \/ Lookup(p)
    \/ ReadBalance(p)
    \/ WriteBalance(p)
    \/ Lock(p)
    \/ Put(p)
    \/ saveMarshal(p)
    \/ saveCreate(p)
    \/ saveWrite(p)
    \/ depositRespond(p)
    \/ withdrawRespond(p)
    \/ clientReturn(p)

\* one client of the service that waits for each answer before it sends the
\* next request; no file operation fails and the service is not restarted
SvcNext == \E p \in {1} : Serve(p)
SvcSpec == Init /\ [][SvcNext]_vars

TypeOK ==
    /\ balance \in Int
    /\ requestsLock \in {0} \cup Procs
    /\ DOMAIN requests \subseteq Keys

(* ------------------------------ claims --------------------------------- *)
Done(p) == proc[p].pc = "done"
Ok(p) == proc[p].ret.err = NoErr

\* tx is the given prefix followed by 10 digits
IsTxID(tx, prefix) ==
    /\ Len(tx) = 11
    /\ tx[1] = prefix
    /\ \A i \in 2..11 : IsDigit(tx[i])

\* the call of p has returned and repeats, with the same operation and
\* amount, the first call that used its non-empty key in this lifetime
Repeats(p, o) ==
    /\ Done(p)
    /\ proc[p].op = o
    /\ proc[p].key # ""
    /\ proc[p].amount >= 1
    /\ gh[p].dup
    /\ firstRet[proc[p].key].op = o
    /\ firstRet[proc[p].key].amount = proc[p].amount

\* the repeated call of p returned the first call's ID and changed nothing
Deduplicated(p) ==
    /\ Ok(p)
    /\ proc[p].ret.tx = firstRet[proc[p].key].tx
    /\ ~gh[p].applied
    /\ balance = gh[p].bal0

\* C1: calling Deposit(amount, key) a second time, sequentially and in one
\* process lifetime, with amount >= 1 and a non-empty key, returns the
\* transaction ID of the first call and leaves the balance as it was; the
\* first call changed the balance by exactly amount.
C1_DepositIdempotent ==
    \A p \in Procs :
        Repeats(p, "D") =>
            /\ Deduplicated(p)
            /\ firstRet[proc[p].key].change = proc[p].amount

C1_Witness == \E p \in Procs : Repeats(p, "D")

\* C2: calling Withdraw(amount, key) a second time, sequentially and in one
\* process lifetime, after a first call with 1 <= amount <= balance, returns
\* the transaction ID of the first call and leaves the balance as it was,
\* whatever balance the first call left; the first call changed the balance
\* by exactly amount.
C2_WithdrawIdempotent ==
    \A p \in Procs :
        Repeats(p, "W") =>
            /\ Deduplicated(p)
            /\ firstRet[proc[p].key].change = 0 - proc[p].amount

\* C3: of two calls on one Bank that carry the same non-empty idempotency
\* key, at most one applies its balance change, and when both have returned
\* a transaction ID it is the same ID.
C3_SameKeyAppliesOnce ==
    \A p, q \in Procs :
        (p # q /\ proc[p].key # "" /\ proc[p].key = proc[q].key) =>
            /\ ~(gh[p].applied /\ gh[q].applied)
            /\ (Done(p) /\ Done(q) /\ Ok(p) /\ Ok(q)
                    => proc[p].ret.tx = proc[q].ret.tx)

\* the only two calls of this lifetime were one per goroutine, both applied
\* their change and returned a transaction ID, and they did not share a
\* non-empty key
BothSucceeded ==
    /\ epochCalls = 2
    /\ \A p \in Procs : Done(p) /\ Ok(p) /\ gh[p].applied
    /\ \A p, q \in Procs :
          (p # q /\ proc[p].key = proc[q].key) => proc[p].key = ""

\* C4: when two calls with different keys (or no keys) both succeeded, the
\* in-memory balance and the persisted balance equal the starting balance
\* plus the net effect of both.
C4_NoLostUpdate ==
    BothSucceeded =>
        /\ balance = expected
        /\ fileExists
        /\ Unmarshal(fileData) = [ok |-> TRUE, value |-> expected]

\* C5: the balance is non-negative in every reachable state.
C5_BalanceNonNegative == GetBalance >= 0

\* C6: with an empty key and sequential calls, Deposit(amount >= 1) raises
\* the balance by exactly amount and returns 'D' followed by 10 digits, and
\* Withdraw(1 <= amount <= balance) lowers it by exactly amount and returns
\* 'W' followed by 10 digits.
C6_NoKeyExactChange ==
    \A p \in Procs :
        (Done(p) /\ proc[p].key = "" /\ proc[p].amount >= 1) =>
            /\ proc[p].op = "D" =>
                  /\ Ok(p)
                  /\ balance = gh[p].bal0 + proc[p].amount
                  /\ IsTxID(proc[p].ret.tx, "D")
            /\ (proc[p].op = "W" /\ proc[p].amount <= gh[p].bal0) =>
                  /\ Ok(p)
                  /\ balance = gh[p].bal0 - proc[p].amount
                  /\ IsTxID(proc[p].ret.tx, "W")

C6_Witness ==
    \E p \in Procs :
        /\ Done(p) /\ Ok(p)
        /\ proc[p].op = "W" /\ proc[p].key = ""
        /\ proc[p].amount >= 1 /\ proc[p].amount <= gh[p].bal0
        /\ "" \in DOMAIN requests

\* C7: Withdraw(amount, key) with amount > balance fails with insufficient
\* funds, returns no transaction ID and leaves the balance unchanged.
C7_InsufficientFunds ==
    \A p \in Procs :
        (Done(p) /\ proc[p].op = "W" /\ proc[p].amount >= 1
                 /\ proc[p].amount > gh[p].bal0) =>
            /\ proc[p].ret.err = InsufficientFunds(proc[p].amount, gh[p].bal0)
            /\ proc[p].ret.tx = NoTx
            /\ ~gh[p].applied
            /\ balance = gh[p].bal0

C7_Witness ==
    \E p \in Procs :
        /\ Done(p) /\ proc[p].op = "W" /\ proc[p].amount >= 1
        /\ proc[p].amount > gh[p].bal0
        /\ proc[p].key # "" /\ proc[p].key \in DOMAIN requests

\* C8: for every amount < 1 and every key, Deposit and Withdraw fail with
\* an invalid-amount error and leave the balance unchanged.
C8_InvalidAmount ==
    \A p \in Procs :
        (Done(p) /\ proc[p].amount < 1) =>
            /\ proc[p].ret.err = InvalidAmount(proc[p].amount)
            /\ proc[p].ret.tx = NoTx
            /\ ~gh[p].applied
            /\ balance = gh[p].bal0

C8_Witness ==
    \E p \in Procs :
        /\ Done(p) /\ proc[p].amount < 1 /\ proc[p].op = "W"
        /\ proc[p].key # "" /\ proc[p].key \in DOMAIN requests

\* a Bank has just been constructed and has served no call yet
JustStarted == epochCalls = 0

\* C9: when every write succeeded, a Bank constructed after any sequence of
\* calls starts with the balance the previous Bank held in memory; a Bank
\* constructed when no record exists starts with balance 0.
C9_RestartRoundTrip ==
    /\ (JustStarted /\ epoch > 0 /\ ~ioFailed) => balance = oldBalance
    /\ (JustStarted /\ ~fileExists) => balance = 0

C9_Witness ==
    /\ JustStarted /\ epoch > 0 /\ ~ioFailed
    /\ fileExists
    /\ balance > MaxInitBalance

\* C10: a call returns a transaction ID only after the save of the call
\* that generated the ID has written the record.
C10_PersistBeforeAck ==
    \A p \in Procs :
        (Done(p) /\ proc[p].ret.tx # NoTx) => gh[p].src \in durable

\* the call of p has returned and used a non-empty key that a call of the
\* other operation o was the first to use in this lifetime
CrossRepeats(p, o) ==
    /\ Done(p)
    /\ proc[p].op # o
    /\ proc[p].key # ""
    /\ proc[p].amount >= 1
    /\ gh[p].dup
    /\ firstRet[proc[p].key].op = o
    /\ (proc[p].op = "W" => proc[p].amount <= gh[p].bal0)

\* C11: the cache is not operation-scoped: within one process lifetime a
\* Withdraw(amount <= balance, key) after a successful Deposit with the key
\* returns the deposit's transaction ID and leaves the balance unchanged,
\* and a Deposit(amount, key) after a successful Withdraw with the key
\* returns the withdrawal's transaction ID and leaves the balance unchanged.
C11_CacheNotOperationScoped ==
    \A p \in Procs :
        /\ CrossRepeats(p, "D") =>
              Deduplicated(p) /\ proc[p].ret.tx[1] = "D"
        /\ CrossRepeats(p, "W") =>
              Deduplicated(p) /\ proc[p].ret.tx[1] = "W"

C11_Witness == \E p \in Procs : CrossRepeats(p, "D")

C11_WitnessDepositAfterWithdraw == \E p \in Procs : CrossRepeats(p, "W")

\* C19: Withdraw(amount, key) with amount > balance fails with insufficient
\* funds and returns no transaction ID even when the key is already
\* recorded in the cache.
C19_FundsCheckBeforeLookup ==
    \A p \in Procs :
        (Done(p) /\ proc[p].op = "W" /\ proc[p].amount >= 1
                 /\ proc[p].amount > gh[p].bal0
                 /\ proc[p].key # "" /\ proc[p].key \in DOMAIN requests) =>
            /\ proc[p].ret.err.kind = "InsufficientFunds"
            /\ proc[p].ret.tx = NoTx
            /\ proc[p].ret.tx # requests[proc[p].key]

C19_Witness ==
    \E p \in Procs :
        /\ Done(p) /\ proc[p].op = "W" /\ proc[p].amount >= 1
        /\ proc[p].amount > gh[p].bal0
        /\ proc[p].key # "" /\ proc[p].key \in DOMAIN requests
        /\ gh[p].dup

\* C20: within one process lifetime, an operation that applied a balance
\* change got a transaction ID different from the ID of every other
\* operation that applied one.
C20_TransactionIDsUnique ==
    /\ \A p \in Procs : \A k \in DOMAIN requests :
          (proc[p].pc \in {"lock", "put"} /\ owner[k] # gh[p].sn)
              => requests[k] # proc[p].txID
    /\ \A p, q \in Procs :
          (p # q /\ Done(p) /\ Done(q) /\ gh[p].applied /\ gh[q].applied)
              => proc[p].ret.tx # proc[q].ret.tx

\* the call of p has returned; it was the first call of a lifetime that
\* followed a restart, it used a non-empty key the previous lifetime had
\* recorded, and its amount was valid and, for Withdraw, affordable
RepeatsAcrossRestart(p) ==
    /\ Done(p)
    /\ epoch > 0
    /\ epochCalls = 1
    /\ proc[p].key # ""
    /\ proc[p].key \in DOMAIN oldRequests
    /\ proc[p].amount >= 1
    /\ (proc[p].op = "W" => proc[p].amount <= gh[p].bal0)

\* C12: after a restart the cache is empty while the balance survives, so a
\* Deposit(amount, key) (or an affordable Withdraw(amount, key)) whose key
\* was recorded before the restart applies its balance change again and
\* returns an ID generated by this call.
C12_CacheEmptyAfterRestart ==
    /\ (JustStarted /\ epoch > 0) =>
          /\ requests = EmptyMap
          /\ (~ioFailed => balance = oldBalance)
    /\ \A p \in Procs :
          RepeatsAcrossRestart(p) =>
              /\ Ok(p)
              /\ gh[p].applied
              /\ gh[p].src = gh[p].sn
              /\ balance = IF proc[p].op = "D"
                           THEN gh[p].bal0 + proc[p].amount
                           ELSE gh[p].bal0 - proc[p].amount
              /\ IsTxID(proc[p].ret.tx, proc[p].op)

C12_Witness ==
    \E p \in Procs :
        /\ RepeatsAcrossRestart(p)
        /\ proc[p].op = "D"
        /\ oldBalance > 0

\* C13: when the record is present but corrupt, constructing a Bank is a
\* fatal load error: the Bank accepts no call and the corrupt record is
\* never overwritten.
C13_CorruptLoadIsFatal ==
    loadFailed =>
        /\ epochCalls = 0
        /\ fileExists
        /\ ~Unmarshal(fileData).ok

\* C14: when the durable write of a call fails, the call returns a
\* persistence error and no ID, the process keeps running, and the balance
\* change the call made in memory is not rolled back.
C14_FailedWriteReturnsError ==
    \A p \in Procs :
        gh[p].ioFail =>
            /\ alive
            /\ balance = IF proc[p].op = "D"
                         THEN gh[p].bal0 + proc[p].amount
                         ELSE gh[p].bal0 - proc[p].amount
            /\ Done(p) => /\ proc[p].ret.err.kind = "PersistenceError"
                          /\ proc[p].ret.tx = NoTx

(* ----------------------- claims about the service ---------------------- *)
\* the request of p went through the service
Served(p) == proc[p].pc # "idle" /\ ~proc[p].req.direct

\* bank.Withdraw, called for the request of p, failed with insufficient funds
WithdrawRefused(p) ==
    /\ Served(p)
    /\ Done(p)
    /\ proc[p].op = "W"
    /\ proc[p].ret.err.kind = "InsufficientFunds"

\* the text after "insufficient funds: " in the error bank.Withdraw returned to p
DetailText(p) ==
    SubSeq(ErrorText("W", proc[p].ret.err), Len(LedgerInsufficientMarker) + 2,
           Len(ErrorText("W", proc[p].ret.err)))

\* C15: whenever the Bank's Withdraw fails with insufficient funds, the
\* service answers status 400 with a body containing
\* 'INSUFFICIENT_FUNDS: <detail>', and the client's Withdraw returns an
\* InsufficientFundsError whose message is exactly the detail, the text
\* after 'insufficient funds: ' in the Bank's error.
C15_InsufficientFundsEndToEnd ==
    \A p \in Procs :
        WithdrawRefused(p) =>
            /\ proc[p].resp # NoResp =>
                  /\ proc[p].resp.status = 400
                  /\ Contains(proc[p].resp.body,
                              ReInsufficientFunds \o <<" ">> \o DetailText(p))
            /\ proc[p].cli.returned =>
                  /\ proc[p].cli.kind = "InsufficientFundsError"
                  /\ proc[p].cli.message = DetailText(p)
                  /\ proc[p].cli.tx = NoTx

C15_Witness ==
    \E p \in Procs :
        /\ WithdrawRefused(p)
        /\ proc[p].cli.returned
        /\ proc[p].req = ClientRequest(proc[p].amount, proc[p].key)
        /\ DetailText(p) = <<"w", "i", "t", "h", "d", "r", "a", "w", "a", "l", " ",
                             "a", "m", "o", "u", "n", "t", " ", "$", "2", " ",
                             "e", "x", "c", "e", "e", "d", "s", " ",
                             "b", "a", "l", "a", "n", "c", "e", " ", "$", "1">>

\* the texts of the amount parameter that are an integer >= 1, among AmountParams
GoodAmountTexts ==
    {NatToStr(n) : n \in 1..MaxAmount} \cup {<<"+">> \o NatToStr(n) : n \in 1..MaxAmount}

\* the request of p has no amount parameter
AmountAbsent(p) == Served(p) /\ ~proc[p].req.hasAmount

\* the amount parameter of p's request does not parse as an integer or is < 1
AmountUnusable(p) ==
    Served(p) /\ proc[p].req.hasAmount /\ proc[p].req.amount \notin GoodAmountTexts

\* the service answered p with the message, as the line http.Error writes,
\* and the Bank was not called
AnsweredWithoutBank(p, message) ==
    /\ Done(p)
    /\ proc[p].resp = [status |-> 400, body |-> message \o <<"\n">>]
    /\ proc[p].ret = [tx |-> NoTx, err |-> NoErr]
    /\ gh[p] = IdleGh

\* C16: a /deposit or /withdraw request without amount parameter gets 400
\* 'ERROR: MISSING_AMOUNT_PARAM'; one whose amount does not parse as an
\* integer or is < 1 gets 400 'ERROR: INVALID_AMOUNT'; in both cases the
\* Bank is not called and the step that takes the request leaves balance,
\* cache and record as they were.
C16_ServiceAmountValidation ==
    /\ [](\A p \in Procs :
            /\ AmountAbsent(p) => AnsweredWithoutBank(p, MsgMissingAmountParam)
            /\ AmountUnusable(p) => AnsweredWithoutBank(p, MsgInvalidAmount))
    /\ [][\A p \in Procs :
            (/\ proc'[p] # proc[p]
             /\ ~proc'[p].cli.returned
             /\ ~proc'[p].req.direct
             /\ \/ ~proc'[p].req.hasAmount
                \/ proc'[p].req.amount \notin GoodAmountTexts)
            => UNCHANGED <<balance, requests, fileExists, fileData, epochCalls>>]_vars

C16_Witness ==
    \E p \in Procs :
        /\ AmountUnusable(p)
        /\ proc[p].req.amount = <<"0">>
        /\ proc[p].cli.returned
        /\ epochCalls = 1

\* the request of p, with no idempotency key or an empty one, asked for a
\* deposit of an amount >= 1 or a withdrawal of an amount >= 1 that the
\* balance covered, and the Bank has returned
NoKeyCall(p) ==
    /\ Served(p)
    /\ Done(p)
    /\ gh[p].sn # 0
    /\ ~proc[p].req.hasKey \/ proc[p].req.key = ""
    /\ proc[p].amount >= 1
    /\ proc[p].op = "W" => proc[p].amount <= gh[p].bal0

\* C17: a mutating request with no idempotency key (parameter absent or
\* empty) is never deduplicated: it applies its balance change and returns
\* an ID generated by this call, whatever earlier calls used the empty key.
C17_NoKeyNeverDeduplicated ==
    \A p \in Procs :
        NoKeyCall(p) =>
            /\ Ok(p)
            /\ gh[p].applied
            /\ gh[p].src = gh[p].sn
            /\ IsTxID(proc[p].ret.tx, proc[p].op)
            /\ balance = IF proc[p].op = "D"
                         THEN gh[p].bal0 + proc[p].amount
                         ELSE gh[p].bal0 - proc[p].amount
            /\ proc[p].resp # NoResp => proc[p].resp.status = 200
            /\ proc[p].cli.returned =>
                  proc[p].cli.kind = "nil" /\ proc[p].cli.tx = proc[p].ret.tx

C17_Witness ==
    \E p \in Procs :
        /\ NoKeyCall(p)
        /\ ~proc[p].req.hasKey
        /\ gh[p].had
        /\ proc[p].cli.returned

\* "HTTP Error 400: " followed by the body
GenericMessage(body) == MsgHTTPError \o <<"4", "0", "0", ":", " ">> \o body

\* the labels under which the service renders the other failures
GenericLabels == {MsgMissingAmountParam, MsgInvalidAmount, MsgDepositFail, MsgWithdrawFail}
HasGenericLabel(body) == \E l \in GenericLabels : OccursAt(body, l, 1)

\* C18: the client returns an InsufficientFundsError only when the Bank
\* refused a Withdraw for insufficient funds; every other error-status
\* response (MISSING_AMOUNT_PARAM, INVALID_AMOUNT, DEPOSIT_FAIL,
\* WITHDRAW_FAIL) carries a generic label and the client returns a generic
\* error with the status code and the body text.
C18_OnlyInsufficientFundsIsTyped ==
    /\ \A p \in Procs :
          (Served(p) /\ proc[p].cli.returned) =>
              /\ proc[p].cli.kind = "InsufficientFundsError" => WithdrawRefused(p)
              /\ (proc[p].resp.status >= 400 /\ ~WithdrawRefused(p)) =>
                    /\ HasGenericLabel(proc[p].resp.body)
                    /\ proc[p].cli.kind = "error"
                    /\ proc[p].cli.message = GenericMessage(proc[p].resp.body)
                    /\ proc[p].cli.tx = NoTx
    \* DEPOSIT_FAIL and WITHDRAW_FAIL, which no request brings about: a fact
    \* about the functions alone, looked at before the first request
    /\ \A a \in Amounts :
          (calls = 0 /\ invalidAmount(a)) =>
              /\ HasGenericLabel(depositResponse(NoTx, InvalidAmount(a)).body)
              /\ clientResult(depositResponse(NoTx, InvalidAmount(a))).kind = "error"
              /\ clientResult(depositResponse(NoTx, InvalidAmount(a))).message
                    = GenericMessage(depositResponse(NoTx, InvalidAmount(a)).body)
              /\ HasGenericLabel(withdrawResponse(NoTx, InvalidAmount(a)).body)
              /\ clientResult(withdrawResponse(NoTx, InvalidAmount(a))).kind = "error"
              /\ clientResult(withdrawResponse(NoTx, InvalidAmount(a))).message
                    = GenericMessage(withdrawResponse(NoTx, InvalidAmount(a)).body)

C18_Witness ==
    \E p \in Procs :
        /\ Served(p)
        /\ proc[p].cli.returned
        /\ proc[p].resp.status >= 400
        /\ ~WithdrawRefused(p)
        /\ proc[p].op = "W"

(* ---------------------- claims about concurrent calls ------------------- *)
\* C21: all accesses to the cache are mutually exclusive: in no reachable
\* state is one call at its key lookup while another call is writing an
\* entry.
C21_CacheAccessExclusive ==
    \A p \in Procs : ~LookupDuringPut(p)

\* C22: whenever no call is in progress, at least one mutation has
\* completed and no file operation failed, the record holds the in-memory
\* balance, in every interleaving of concurrent calls.
C22_MemoryDiskAgreeAtQuiescence ==
    (alive /\ Quiescent /\ durable # {} /\ ~ioFailed) =>
        /\ fileExists
        /\ Unmarshal(fileData) = [ok |-> TRUE, value |-> balance]

\* C23: once the cache maps a non-empty key to an ID, the entry is neither
\* removed nor overwritten with a different ID for the rest of the process
\* lifetime.
C23_CacheEntriesStable ==
    [][\A k \in DOMAIN requests :
          (k # "" /\ epoch' = epoch) =>
              /\ k \in DOMAIN requests'
              /\ requests'[k] = requests[k]]_vars

(* ------------------------ claims about failed calls --------------------- *)
\* the call of p has returned; it repeated the key of the failed call before
\* it, no call had succeeded with that key, and its amount was valid and,
\* for Withdraw, covered by the balance
RetriedAfterFailure(p) ==
    /\ Done(p)
    /\ gh[p].retry
    /\ ~gh[p].dup
    /\ proc[p].amount >= 1
    /\ proc[p].op = "W" => proc[p].amount <= gh[p].bal0

\* C24: a Deposit or Withdraw that fails with invalid amount or insufficient
\* funds records nothing in the cache and writes nothing to the record, so a
\* later valid call with the same non-empty key applies its balance change
\* and returns an ID generated by that call.
C24_FailedCallKeepsKeyFree ==
    /\ [][\A p \in Procs :
            (/\ proc'[p] # proc[p]
             /\ proc'[p].pc = "done"
             /\ proc'[p].ret.err # NoErr)
            => UNCHANGED <<balance, requests, fileExists, fileData>>]_vars
    /\ [](\A p \in Procs :
            RetriedAfterFailure(p) =>
                /\ Ok(p)
                /\ gh[p].applied
                /\ gh[p].src = gh[p].sn
                /\ IsTxID(proc[p].ret.tx, proc[p].op)
                /\ balance = IF proc[p].op = "D"
                             THEN gh[p].bal0 + proc[p].amount
                             ELSE gh[p].bal0 - proc[p].amount)

C24_Witness ==
    \E p \in Procs :
        /\ RetriedAfterFailure(p)
        /\ proc[p].op = "W"
        /\ gh[p].bal0 = 1
        /\ proc[p].amount = 1
====
